---- MODULE Spec2Model ----
(***************************************************************************)
(* Model of the jump-cube endless runner (React component App).            *)
(*                                                                         *)
(* The component's state (useState cells and useRef cells), the browser's  *)
(* queue of requested animation frames and the localStorage entry are the  *)
(* variables.  One action per callback the host can deliver: an animation  *)
(* frame (gameLoop), keydown, keyup, touchstart and the mute button.       *)
(* Each action contains the handler, the re-render its state updates       *)
(* cause and the effects that re-render re-runs (cleanup, then body).      *)
(* playSound and the score-milestone effect write no state of the          *)
(* simulation; isMuted is kept because playSound, which closes over it,    *)
(* is a dependency of the game loop effect.  The calls of                  *)
(* playSound('gameOver') that the game loop effect makes are counted in    *)
(* SoundSpec; the other cues are left out.                                 *)
(*                                                                         *)
(* Numbers are JavaScript doubles in the source.  The model keeps them as  *)
(* integers in fixed units chosen so that every product of the tick is     *)
(* exact for frame times that are multiples of 1/SEC second:               *)
(*    time, deltaTime        1/SEC s                                       *)
(*    dino.vy                1 px/s                                        *)
(*    dino.y                 1/YU px                                       *)
(*    speed                  1/SU px/s                                     *)
(*    obstacle.x             1/XU px                                       *)
(*    score                  1/SCU point                                   *)
(*    nextObstacleTimeRef    1/CU ms                                       *)
(* The only inexact operation is the division in the spawn interval,       *)
(* which is rounded down to 1/CU ms.                                       *)
(***************************************************************************)
EXTENDS Integers, Sequences, FiniteSets

(* ------------------------------ constants ------------------------------ *)
GAME_WIDTH == 800
GAME_HEIGHT == 250
GROUND_Y == GAME_HEIGHT - 20
GRAVITY == 1800
JUMP_FORCE == 650
DINO_RUNNING_DIMENSIONS == [width |-> 44, height |-> 47]
DINO_DUCKING_DIMENSIONS == [width |-> 59, height |-> 30]
INITIAL_SPEED == 300
SPEED_INCREASE_RATE == 8
OBSTACLE_INTERVAL_MIN == 700
OBSTACLE_INTERVAL_MAX == 1800
OBSTACLE_CONFIGS ==
  [CACTUS_SMALL |-> [width |-> 25, height |-> 50],
   CACTUS_LARGE |-> [width |-> 50, height |-> 50]]
DINO_X == 50

(* ------------------------------ units ---------------------------------- *)
\* time units per second: deltaTime = (time - lastTimeRef.current) / 1000
SEC == 600
MS_PER_SEC == 1000
YU == SEC
SU == SEC \div SPEED_INCREASE_RATE
XU == SU * SEC
SCORE_DIVISOR == 10
SCU == XU * SCORE_DIVISOR
CU == 30

(* ------------------------------ bounds --------------------------------- *)
\* animation frames delivered in one behaviour
MaxFrames == 8
\* input events (keys, taps, clicks) delivered in one behaviour
MaxInputs == 4
\* time between two animation frames, in 1/SEC s: 250 ms and 2.4 s
Deltas == {150, 1440}
\* values Math.random() * (max - min) + min takes, in ms
Intervals == {OBSTACLE_INTERVAL_MIN, OBSTACLE_INTERVAL_MAX - 1}
\* what localStorage holds under 'dinoHighScore' when the page loads
\* (has = FALSE: getItem returns null)
StoredValues ==
  {[has |-> FALSE, value |-> <<>>],
   [has |-> TRUE, value |-> <<"4", "0">>],
   [has |-> TRUE, value |-> <<"x">>]}

\* the null of gameLoopRef; request ids are positive
Null == 0

(* ------------------------------ helpers -------------------------------- *)
Digits == <<"0", "1", "2", "3", "4", "5", "6", "7", "8", "9">>

DigitValue(c) == (CHOOSE i \in 1..10 : Digits[i] = c) - 1

IsDigit(c) == \E i \in 1..10 : Digits[i] = c

RECURSIVE toString(_)
\* Number.prototype.toString of an integer
toString(n) ==
  IF n < 0 THEN <<"-">> \o toString(0 - n)
  ELSE IF n < 10 THEN <<Digits[n + 1]>>
  ELSE toString(n \div 10) \o <<Digits[(n % 10) + 1]>>

RECURSIVE ParseDigits(_, _, _)
\* the value of the longest prefix of decimal digits of s from position i
ParseDigits(s, i, acc) ==
  IF i <= Len(s) /\ IsDigit(s[i])
    THEN ParseDigits(s, i + 1, acc * 10 + DigitValue(s[i]))
    ELSE acc

RECURSIVE SkipSpace(_)
SkipSpace(s) == IF s # <<>> /\ Head(s) = " " THEN SkipSpace(Tail(s)) ELSE s

\* parseInt(s, 10): leading white space, an optional sign, then digits;
\* nan = TRUE stands for NaN
ParseInt(str) ==
  LET s == SkipSpace(str)
      signed == s # <<>> /\ Head(s) \in {"-", "+"}
      body == IF signed THEN Tail(s) ELSE s
  IN  IF body = <<>> \/ ~IsDigit(Head(body)) THEN [nan |-> TRUE, value |-> 0]
      ELSE IF signed /\ Head(s) = "-"
        THEN [nan |-> FALSE, value |-> 0 - ParseDigits(body, 1, 0)]
        ELSE [nan |-> FALSE, value |-> ParseDigits(body, 1, 0)]

\* Math.floor of a score kept in 1/SCU point
Floor(sc) == sc \div SCU

\* random(min, max) = Math.random() * (max - min) + min
random(min, max) == {r \in Intervals : min <= r /\ r < max}

getDinoDimensions(status) ==
  IF status = "ducking" THEN DINO_DUCKING_DIMENSIONS ELSE DINO_RUNNING_DIMENSIONS

\* GROUND_Y - dimensions.height, in 1/YU px
groundPosition(status) == (GROUND_Y - getDinoDimensions(status).height) * YU


(* ------------------------------ state ---------------------------------- *)
VARIABLES
  gameState,            \* useState: "waiting", "running", "gameOver"
  dino,                 \* useState: [y, vy, status]
  obstacles,            \* useState: sequence of [x, width, height, type]
  score,                \* useState
  highScore,            \* useState
  speed,                \* useState
  isMuted,              \* useState
  gameLoopRef,          \* useRef: id of the last requested animation frame
  lastTimeRef,          \* useRef: time of the previous frame, 0 = none
  nextObstacleTimeRef,  \* useRef: spawn countdown
  localStorage,         \* the entry 'dinoHighScore'
  rafQueue,             \* requested animation frames not yet run or cancelled:
                        \* [id, dino, obstacles, speed], the gameLoop closure
  frames,               \* animation frames delivered so far
  inputs,               \* input events delivered so far
  ev,                   \* what the last callback did: [op, dt]
  probe                 \* operands and result of a function applied on its own

vars ==
  <<gameState, dino, obstacles, score, highScore, speed, isMuted, gameLoopRef,
    lastTimeRef, nextObstacleTimeRef, localStorage, rafQueue, frames, inputs,
    ev, probe>>

(* ------------------------------ the host ------------------------------- *)
\* cancelAnimationFrame(id)
cancelAnimationFrame(q, id) == {c \in q : c.id # id}

\* the id requestAnimationFrame returns: one no pending request has
NewId(q) == CHOOSE i \in 1..(Cardinality(q) + 1) :
              /\ \A c \in q : c.id # i
              /\ \A j \in 1..(i - 1) : \E c \in q : c.id = j

\* requestAnimationFrame(gameLoop), gameLoop closed over (d, obs, sp)
requestAnimationFrame(q, d, obs, sp) ==
  q \cup {[id |-> NewId(q), dino |-> d, obstacles |-> obs, speed |-> sp]}

(* ------------------------------ effects -------------------------------- *)
\* useEffect(load high score): the high score after mount
LoadHighScore(ls) ==
  IF ls.has /\ ls.value # <<>>
    THEN LET n == ParseInt(ls.value)
         IN  IF n.nan \/ n.value = 0 THEN 0 ELSE n.value
    ELSE 0

\* mutant: setItem writes the high score of the render, not finalScore
GameLoopEffect_StaleStore(gs, d, obs, sp, sc, hs, q, ref, last, ls) ==
  LET q1 == IF ref # Null THEN cancelAnimationFrame(q, ref) ELSE q
  IN  IF gs = "running"
        THEN [q |-> requestAnimationFrame(q1, d, obs, sp), ref |-> NewId(q1),
              last |-> 0, hs |-> hs, ls |-> ls]
        ELSE LET q2 == IF ref # Null THEN cancelAnimationFrame(q1, ref) ELSE q1
                 finalScore == Floor(sc)
             IN  IF gs = "gameOver" /\ finalScore > hs
                   THEN [q |-> q2, ref |-> ref, last |-> last, hs |-> finalScore,
                         ls |-> [has |-> TRUE, value |-> toString(hs)]]
                   ELSE [q |-> q2, ref |-> ref, last |-> last, hs |-> hs,
                         ls |-> ls]

\* mutant: the effect requests a frame in every mode
GameLoopEffect_AlwaysRequests(gs, d, obs, sp, sc, hs, q, ref, last, ls) ==
  LET q1 == IF ref # Null THEN cancelAnimationFrame(q, ref) ELSE q
  IN  [q |-> requestAnimationFrame(q1, d, obs, sp), ref |-> NewId(q1),
       last |-> 0, hs |-> hs, ls |-> ls]

\* mutant: the effect has no cleanup
GameLoopEffect_NoCleanup(gs, d, obs, sp, sc, hs, q, ref, last, ls) ==
  IF gs = "running"
    THEN [q |-> requestAnimationFrame(q, d, obs, sp), ref |-> NewId(q),
          last |-> 0, hs |-> hs, ls |-> ls]
    ELSE LET q2 == IF ref # Null THEN cancelAnimationFrame(q, ref) ELSE q
             finalScore == Floor(sc)
         IN  IF gs = "gameOver" /\ finalScore > hs
               THEN [q |-> q2, ref |-> ref, last |-> last, hs |-> finalScore,
                     ls |-> [has |-> TRUE, value |-> toString(finalScore)]]
               ELSE [q |-> q2, ref |-> ref, last |-> last, hs |-> hs,
                     ls |-> ls]

\* One run of useEffect(game loop registration / high score) after a render
\* that changed one of its dependencies: the cleanup of the previous run,
\* then the body.
GameLoopEffect(gs, d, obs, sp, sc, hs, q, ref, last, ls) ==
  LET q1 == IF ref # Null THEN cancelAnimationFrame(q, ref) ELSE q
  IN  IF gs = "running"
        THEN [q |-> requestAnimationFrame(q1, d, obs, sp), ref |-> NewId(q1),
              last |-> 0, hs |-> hs, ls |-> ls]
        ELSE LET q2 == IF ref # Null THEN cancelAnimationFrame(q1, ref) ELSE q1
                 finalScore == Floor(sc)
             IN  IF gs = "gameOver" /\ finalScore > hs
                   THEN [q |-> q2, ref |-> ref, last |-> last, hs |-> finalScore,
                         ls |-> [has |-> TRUE, value |-> toString(finalScore)]]
                   ELSE [q |-> q2, ref |-> ref, last |-> last, hs |-> hs,
                         ls |-> ls]

\* The renders that follow a state update: the effect runs, and runs once
\* more when it called setHighScore (highScore is one of its dependencies).
Render(gs, d, obs, sp, sc, hs, q, ref, last, ls) ==
  LET r == GameLoopEffect(gs, d, obs, sp, sc, hs, q, ref, last, ls)
  IN  IF r.hs # hs
        THEN GameLoopEffect(gs, d, obs, sp, sc, r.hs, r.q, r.ref, r.last, r.ls)
        ELSE r

(* ------------------------------ the tick ------------------------------- *)
\* mutant: the ground clamp is missing
Kinematics_NoClamp(d, deltaTime) ==
  LET newDinoVy == d.vy + (GRAVITY * deltaTime) \div SEC
  IN  [y |-> d.y + newDinoVy * deltaTime, vy |-> newDinoVy]

\* mutant: gravity is not applied to vy
Kinematics_NoGravity(d, deltaTime) ==
  LET newDinoY == d.y + d.vy * deltaTime
  IN  IF newDinoY >= groundPosition(d.status)
        THEN [y |-> groundPosition(d.status), vy |-> 0]
        ELSE [y |-> newDinoY, vy |-> d.vy]

\* gameLoop, kinematics: the player after deltaTime
Kinematics(d, deltaTime) ==
  LET newDinoVy == d.vy + (GRAVITY * deltaTime) \div SEC
      newDinoY == d.y + newDinoVy * deltaTime
  IN  IF newDinoY >= groundPosition(d.status)
        THEN [y |-> groundPosition(d.status), vy |-> 0]
        ELSE [y |-> newDinoY, vy |-> newDinoVy]

\* mutant: the filter is missing, obstacles left of the field stay
MoveObstacles_NoFilter(obs, sp, deltaTime) ==
  [i \in 1..Len(obs) |-> [obs[i] EXCEPT !.x = @ - sp * deltaTime]]

RECURSIVE MoveObstacles(_, _, _)
\* gameLoop, scroll and despawn: map, then filter
MoveObstacles(obs, sp, deltaTime) ==
  IF obs = <<>> THEN <<>>
  ELSE LET o == [Head(obs) EXCEPT !.x = @ - sp * deltaTime]
           rest == MoveObstacles(Tail(obs), sp, deltaTime)
       IN  IF o.x > (0 - o.width) * XU THEN <<o>> \o rest ELSE rest

\* the countdown after deltaTime * 1000 ms
Countdown(cd, deltaTime) == cd - (deltaTime * MS_PER_SEC * CU) \div SEC

\* random(MIN, MAX) / (speed / INITIAL_SPEED), for the draw r
SpawnInterval(r, sp) == (r * CU * INITIAL_SPEED * SU) \div sp

NewObstacle(type) ==
  [x |-> GAME_WIDTH * XU, width |-> OBSTACLE_CONFIGS[type].width,
   height |-> OBSTACLE_CONFIGS[type].height, type |-> type]

\* mutant: the new obstacle is put in front of the others
ScrollAndSpawn_Unshift(obs, sp, deltaTime, cd, type) ==
  LET moved == MoveObstacles(obs, sp, deltaTime)
  IN  IF cd <= 0 THEN <<NewObstacle(type)>> \o moved ELSE moved

\* gameLoop, newObstacles: the obstacles that moved and stayed, then the
\* pushed one when the countdown cd (already decreased) ran out
ScrollAndSpawn(obs, sp, deltaTime, cd, type) ==
  LET moved == MoveObstacles(obs, sp, deltaTime)
  IN  IF cd <= 0 THEN Append(moved, NewObstacle(type)) ELSE moved

\* mutant: the interval is multiplied by speed / INITIAL_SPEED
NextCountdown_Multiplies(cd, r, sp) ==
  IF cd <= 0 THEN (r * CU * sp) \div (INITIAL_SPEED * SU) ELSE cd

\* nextObstacleTimeRef after the spawn test, for the draw r
NextCountdown(cd, r, sp) == IF cd <= 0 THEN SpawnInterval(r, sp) ELSE cd

\* speed * deltaTime / 10, in 1/SCU point
ScoreGain(sp, deltaTime) == sp * deltaTime * (SCU \div (SU * SEC * SCORE_DIVISOR))

\* mutant: the speed decays instead of growing
SpeedGain_Decay(deltaTime) == 0 - (SPEED_INCREASE_RATE * deltaTime * SU) \div SEC

\* SPEED_INCREASE_RATE * deltaTime, in 1/SU px/s
SpeedGain(deltaTime) == (SPEED_INCREASE_RATE * deltaTime * SU) \div SEC

\* mutant: boxes that only touch count as overlapping
Overlap_Closed(a, b) ==
  /\ a.x <= b.x + b.width
  /\ a.x + a.width >= b.x
  /\ a.y <= b.y + b.height
  /\ a.y + a.height >= b.y

\* the overlap condition of two boxes [x, y, width, height]
Overlap(a, b) ==
  /\ a.x < b.x + b.width
  /\ a.x + a.width > b.x
  /\ a.y < b.y + b.height
  /\ a.y + a.height > b.y

dinoHitbox(y, status) ==
  [x |-> DINO_X * XU, y |-> y, width |-> getDinoDimensions(status).width * XU,
   height |-> getDinoDimensions(status).height * YU]

\* mutant: the obstacle's box starts at the ground line
obstacleHitbox_BelowGround(o) ==
  [x |-> o.x, y |-> GROUND_Y * YU, width |-> o.width * XU,
   height |-> o.height * YU]

obstacleHitbox(o) ==
  [x |-> o.x, y |-> (GROUND_Y - o.height) * YU, width |-> o.width * XU,
   height |-> o.height * YU]

\* the collision loop over newObstacles
Collision(y, status, obs) ==
  \E i \in 1..Len(obs) : Overlap(dinoHitbox(y, status), obstacleHitbox(obs[i]))

\* jump's updater: the new player, or the same object when not on the ground
IsOnGround(d) == d.y >= groundPosition(d.status)

jumpUpdater(prevDino) ==
  IF IsOnGround(prevDino)
    THEN [prevDino EXCEPT !.vy = 0 - JUMP_FORCE]
    ELSE prevDino


(* ------------------------------ actions -------------------------------- *)
Idle == [kind |-> "none"]

\* the record of a callback: the event and key code delivered, the branch
\* the handler took and, for a tick, its deltaTime, whether it spawned an
\* obstacle and how many obstacles its filter dropped
TickEv(op, dt, spawned, removed) ==
  [event |-> "frame", code |-> "", op |-> op, dt |-> dt, spawned |-> spawned,
   removed |-> removed]

Ev(event, code, op) ==
  [event |-> event, code |-> code, op |-> op, dt |-> 0, spawned |-> FALSE,
   removed |-> 0]

GameInit ==
  /\ gameState = "waiting"
  /\ dino = [y |-> groundPosition("running"), vy |-> 0, status |-> "running"]
  /\ obstacles = <<>>
  /\ score = 0
  /\ localStorage \in StoredValues
  /\ highScore = LoadHighScore(localStorage)
  /\ speed = INITIAL_SPEED * SU
  /\ isMuted = FALSE
  /\ gameLoopRef = Null
  /\ lastTimeRef = 0
  /\ nextObstacleTimeRef = 0
  /\ rafQueue = {}
  /\ frames = 0
  /\ inputs = 0
  /\ ev = Ev("init", "", "init")

Init == GameInit /\ probe = Idle

\* the assignments every action makes from the result r of Render
Rendered(r) ==
  /\ rafQueue' = r.q
  /\ gameLoopRef' = r.ref
  /\ lastTimeRef' = r.last
  /\ highScore' = r.hs
  /\ localStorage' = r.ls

\* gameLoop(time), first branch: no previous frame time
Prime(cb, time) ==
  LET q == rafQueue \ {cb}
  IN  /\ lastTimeRef' = time
      /\ rafQueue' = requestAnimationFrame(q, cb.dino, cb.obstacles, cb.speed)
      /\ gameLoopRef' = NewId(q)
      /\ ev' = Ev("frame", "", "prime")
      /\ UNCHANGED <<gameState, dino, obstacles, score, highScore, speed,
                     nextObstacleTimeRef, localStorage>>

\* gameLoop(time), the simulation step; r and type are the random draws
Tick(cb, time, r, type) ==
  LET deltaTime == time - lastTimeRef
      k == Kinematics(cb.dino, deltaTime)
      moved == MoveObstacles(cb.obstacles, cb.speed, deltaTime)
      cd == Countdown(nextObstacleTimeRef, deltaTime)
      newObstacles == ScrollAndSpawn(cb.obstacles, cb.speed, deltaTime, cd, type)
      q == rafQueue \ {cb}
  IN  /\ nextObstacleTimeRef' = NextCountdown(cd, r, cb.speed)
      /\ IF Collision(k.y, cb.dino.status, newObstacles)
           THEN /\ gameState' = "gameOver"
                /\ UNCHANGED <<dino, obstacles, score, speed>>
                /\ Rendered(Render("gameOver", dino, obstacles, speed, score,
                                   highScore, q, gameLoopRef, time, localStorage))
                /\ ev' = TickEv("collide", deltaTime, cd <= 0,
                                Len(cb.obstacles) - Len(moved))
           ELSE /\ dino' = [dino EXCEPT !.y = k.y, !.vy = k.vy]
                /\ obstacles' = newObstacles
                /\ score' = score + ScoreGain(cb.speed, deltaTime)
                /\ speed' = speed + SpeedGain(deltaTime)
                /\ UNCHANGED gameState
                /\ Rendered(Render(gameState, dino', obstacles', speed', score',
                                   highScore,
                                   requestAnimationFrame(q, cb.dino, cb.obstacles,
                                                         cb.speed),
                                   NewId(q), time, localStorage))
                /\ ev' = TickEv("tick", deltaTime, cd <= 0,
                                Len(cb.obstacles) - Len(moved))

\* The browser runs a requested animation frame, delta after the previous
\* one.  The code uses time only in the difference time - lastTimeRef and in
\* the test lastTimeRef === 0, and lastTimeRef is non-zero only from one
\* frame to the next (LastTimeIsLastFrame), so time is counted from the
\* previous frame when lastTimeRef is 0.
AnimationFrame ==
  /\ frames < MaxFrames
  /\ \E cb \in rafQueue, delta \in Deltas :
       IF lastTimeRef = 0
         THEN Prime(cb, delta)
         ELSE \E r \in random(OBSTACLE_INTERVAL_MIN, OBSTACLE_INTERVAL_MAX),
                 type \in DOMAIN OBSTACLE_CONFIGS :
                Tick(cb, lastTimeRef + delta, r, type)
  /\ frames' = frames + 1
  /\ UNCHANGED <<isMuted, inputs>>

Frame == AnimationFrame /\ UNCHANGED probe

\* a handler that updates no state: nothing re-renders
NoUpdate ==
  UNCHANGED <<gameState, dino, obstacles, score, highScore, speed, gameLoopRef,
              lastTimeRef, nextObstacleTimeRef, localStorage, rafQueue, inputs>>

\* an event no branch of its handler handles
Ignored == NoUpdate /\ UNCHANGED ev

\* a handler that called setDino with the new player d
SetDino(d, e, op) ==
  /\ dino' = d
  /\ UNCHANGED <<gameState, obstacles, score, speed, nextObstacleTimeRef>>
  /\ Rendered(Render(gameState, d, obstacles, speed, score, highScore, rafQueue,
                     gameLoopRef, lastTimeRef, localStorage))
  /\ ev' = Ev(e.event, e.code, op)
  /\ inputs' = inputs + 1

\* setDino's updater returns prevDino itself when the player is not on the
\* ground: no update
jump(e) ==
  IF IsOnGround(dino)
    THEN SetDino(jumpUpdater(dino), e, "jump")
    ELSE NoUpdate /\ ev' = Ev(e.event, e.code, "nojump")

\* mutant: the reset forgets setSpeed(INITIAL_SPEED)
resetGame_KeepsSpeed(e, r) ==
  /\ gameState' = "running"
  /\ dino' = [y |-> groundPosition("running"), vy |-> 0, status |-> "running"]
  /\ obstacles' = <<>>
  /\ score' = 0
  /\ speed' = speed
  /\ nextObstacleTimeRef' = r * CU
  /\ Rendered(Render("running", dino', obstacles', speed', score', highScore,
                     rafQueue, gameLoopRef, 0, localStorage))
  /\ ev' = Ev(e.event, e.code, "reset")
  /\ inputs' = inputs + 1

resetGame(e, r) ==
  /\ gameState' = "running"
  /\ dino' = [y |-> groundPosition("running"), vy |-> 0, status |-> "running"]
  /\ obstacles' = <<>>
  /\ score' = 0
  /\ speed' = INITIAL_SPEED * SU
  /\ nextObstacleTimeRef' = r * CU
  /\ Rendered(Render("running", dino', obstacles', speed', score', highScore,
                     rafQueue, gameLoopRef, 0, localStorage))
  /\ ev' = Ev(e.event, e.code, "reset")
  /\ inputs' = inputs + 1

Codes == {"Space", "ArrowUp", "ArrowDown", "KeyA"}

\* mutant: outside running every key starts the game
handleKeyDown_AnyKeyStarts(e) ==
  IF gameState = "running"
    THEN IF e.code \in {"Space", "ArrowUp"} THEN jump(e)
         ELSE IF e.code = "ArrowDown"
           THEN SetDino([dino EXCEPT !.status = "ducking"], e, "duck")
           ELSE Ignored
    ELSE \E r \in random(OBSTACLE_INTERVAL_MIN, OBSTACLE_INTERVAL_MAX) :
           resetGame(e, r)

handleKeyDown(e) ==
  IF gameState = "running"
    THEN IF e.code \in {"Space", "ArrowUp"} THEN jump(e)
         ELSE IF e.code = "ArrowDown"
           THEN SetDino([dino EXCEPT !.status = "ducking"], e, "duck")
           ELSE Ignored
    ELSE IF e.code \in {"Space", "ArrowUp"}
           THEN \E r \in random(OBSTACLE_INTERVAL_MIN, OBSTACLE_INTERVAL_MAX) :
                  resetGame(e, r)
           ELSE Ignored

\* mutant: releasing the duck key also stops the player's vertical motion
handleKeyUp_Stops(e) ==
  IF gameState = "running" /\ e.code = "ArrowDown"
    THEN SetDino([dino EXCEPT !.status = "running", !.vy = 0], e, "unduck")
    ELSE Ignored

handleKeyUp(e) ==
  IF gameState = "running" /\ e.code = "ArrowDown"
    THEN SetDino([dino EXCEPT !.status = "running"], e, "unduck")
    ELSE Ignored

handleTouchStart(e) ==
  IF gameState = "running"
    THEN jump(e)
    ELSE \E r \in random(OBSTACLE_INTERVAL_MIN, OBSTACLE_INTERVAL_MAX) :
           resetGame(e, r)

\* an input event; inputs counts those whose handler updated state
Input == /\ inputs < MaxInputs
         /\ UNCHANGED frames

\* The keyboard: the keys that are down, followed when the probe is of kind
\* "keys".  The browser delivers keydown for a key going down and again
\* while it stays down (auto-repeat, e.repeat); the handlers do not read
\* e.repeat.
Keyboard(p, code, down) ==
  IF p.kind = "keys"
    THEN [p EXCEPT !.held = IF down THEN @ \cup {code} ELSE @ \ {code}]
    ELSE p

KeyDown == /\ Input
           /\ \E code \in Codes :
                /\ handleKeyDown([event |-> "keydown", code |-> code])
                /\ probe' = Keyboard(probe, code, TRUE)
           /\ UNCHANGED isMuted

KeyUp == /\ Input
         /\ \E code \in Codes :
              /\ handleKeyUp([event |-> "keyup", code |-> code])
              /\ probe' = Keyboard(probe, code, FALSE)
         /\ UNCHANGED isMuted

TouchStart == /\ Input
              /\ handleTouchStart([event |-> "touchstart", code |-> ""])
              /\ UNCHANGED <<isMuted, probe>>

\* the mute button: setIsMuted(prev => !prev); playSound is a dependency of
\* the game loop effect
setIsMuted ==
  /\ Input
  /\ isMuted' = ~isMuted
  /\ UNCHANGED <<gameState, dino, obstacles, score, speed, nextObstacleTimeRef>>
  /\ Rendered(Render(gameState, dino, obstacles, speed, score, highScore,
                     rafQueue, gameLoopRef, lastTimeRef, localStorage))
  /\ ev' = Ev("click", "", "mute")
  /\ inputs' = inputs + 1

ClickMute == setIsMuted /\ UNCHANGED probe

Next == Frame \/ KeyDown \/ KeyUp \/ TouchStart \/ ClickMute

Spec == Init /\ [][Next]_vars

(* ----------------- the game with the keyboard followed ----------------- *)
\* animation frames delivered in one behaviour that follows the keyboard
MaxKeyFrames == 4

KeyInit ==
  /\ GameInit
  /\ ~localStorage.has
  /\ probe = [kind |-> "keys", held |-> {}]

KeyFrame == Frame /\ frames' <= MaxKeyFrames

KeyNext == KeyFrame \/ KeyDown \/ KeyUp \/ TouchStart \/ ClickMute

KeySpec == KeyInit /\ [][KeyNext]_vars

(* ----------------- the game with the gameOver cue counted ------------- *)
\* playSound(sound): the number of times it starts the sound, none when
\* muted
playSound(muted) == IF muted THEN 0 ELSE 1

\* The calls of playSound('gameOver') made by the renders that follow a
\* state update (Render): one by the effect's run in gameOver, one more by
\* the run that follows its setHighScore.
GameOverCalls(gs, sc, hs) ==
  IF gs = "gameOver"
    THEN IF Floor(sc) > hs THEN 2 ELSE 1
    ELSE 0

\* the calls of playSound('gameOver') and the sounds started since the game
\* last entered gameOver, followed when the probe is of kind "sound"; muted
\* is the isMuted the calling render's playSound closes over
Sound(p, calls, muted) ==
  IF p.kind = "sound"
    THEN [p EXCEPT !.calls = @ + calls, !.played = @ + calls * playSound(muted)]
    ELSE p

Silence == [kind |-> "sound", calls |-> 0, played |-> 0]

\* a reset starts a new episode
Restarted(p) == IF gameState # "running" /\ gameState' = "running"
                  THEN Silence ELSE p

SoundInit == GameInit /\ probe = Silence

\* the renders after a tick: the effect runs in gameOver when the tick
\* found the collision
SoundFrame ==
  /\ AnimationFrame
  /\ probe' = IF gameState # gameState'
                THEN Sound(probe, GameOverCalls(gameState', score', highScore),
                           isMuted)
                ELSE probe

SoundKeyDown ==
  /\ Input
  /\ \E code \in Codes : handleKeyDown([event |-> "keydown", code |-> code])
  /\ probe' = Restarted(probe)
  /\ UNCHANGED isMuted

SoundKeyUp ==
  /\ Input
  /\ \E code \in Codes : handleKeyUp([event |-> "keyup", code |-> code])
  /\ UNCHANGED <<isMuted, probe>>

SoundTouchStart ==
  /\ Input
  /\ handleTouchStart([event |-> "touchstart", code |-> ""])
  /\ probe' = Restarted(probe)
  /\ UNCHANGED isMuted

\* the render after the mute button has a new playSound: the effect runs
SoundClickMute ==
  /\ setIsMuted
  /\ probe' = Sound(probe, GameOverCalls(gameState, score, highScore), isMuted')

SoundNext ==
  SoundFrame \/ SoundKeyDown \/ SoundKeyUp \/ SoundTouchStart \/ SoundClickMute

SoundSpec == SoundInit /\ [][SoundNext]_vars

(* ----------------- the component without sound (part_002) -------------- *)
\* The repository holds a second copy of the component, without sound,
\* touch and mute button.  Its gameLoop queues its state updates first and
\* tests the collision last, on the player and obstacles of the render it
\* closes over; it lists dino.y and getDinoDimensions (dino.status), not
\* dino, as dependencies.  The state updates of one callback are committed
\* together.  Init, resetGame, the first-frame branch and the effect are
\* those of the component above.

\* The renders that follow a state update: the game loop effect runs again
\* only when one of [gameState, gameLoop, score, highScore] changed, gameLoop
\* being new when dino.y, dino.status, obstacles or speed changed.
Render002(gs, d, obs, sp, sc, hs, q, ref, last, ls) ==
  IF <<gs, d.y, d.status, obs, sp, sc>>
       = <<gameState, dino.y, dino.status, obstacles, speed, score>>
    THEN [q |-> q, ref |-> ref, last |-> last, hs |-> hs, ls |-> ls]
    ELSE Render(gs, d, obs, sp, sc, hs, q, ref, last, ls)

\* gameLoop(time), the simulation step; r and type are the random draws
Tick002(cb, time, r, type) ==
  LET deltaTime == time - lastTimeRef
      k == Kinematics([dino EXCEPT !.status = cb.dino.status], deltaTime)
      moved == MoveObstacles(obstacles, cb.speed, deltaTime)
      cd == Countdown(nextObstacleTimeRef, deltaTime)
      q == rafQueue \ {cb}
      hit == Collision(cb.dino.y, cb.dino.status, cb.obstacles)
  IN  /\ dino' = [dino EXCEPT !.y = k.y, !.vy = k.vy]
      /\ obstacles' = ScrollAndSpawn(obstacles, cb.speed, deltaTime, cd, type)
      /\ nextObstacleTimeRef' = NextCountdown(cd, r, cb.speed)
      /\ score' = score + ScoreGain(cb.speed, deltaTime)
      /\ speed' = speed + SpeedGain(deltaTime)
      /\ gameState' = IF hit THEN "gameOver" ELSE gameState
      /\ Rendered(Render002(gameState', dino', obstacles', speed', score',
                            highScore,
                            IF hit THEN q
                            ELSE requestAnimationFrame(q, cb.dino, cb.obstacles,
                                                       cb.speed),
                            IF hit THEN gameLoopRef ELSE NewId(q),
                            time, localStorage))
      /\ ev' = TickEv(IF hit THEN "collide" ELSE "tick", deltaTime, cd <= 0,
                      Len(obstacles) - Len(moved))

Frame002 ==
  /\ frames < MaxFrames
  /\ \E cb \in rafQueue, delta \in Deltas :
       IF lastTimeRef = 0
         THEN Prime(cb, delta)
         ELSE \E r \in random(OBSTACLE_INTERVAL_MIN, OBSTACLE_INTERVAL_MAX),
                 type \in DOMAIN OBSTACLE_CONFIGS :
                Tick002(cb, lastTimeRef + delta, r, type)
  /\ frames' = frames + 1
  /\ UNCHANGED <<isMuted, inputs, probe>>

\* a handler that called setDino with the new player d
SetDino002(d, e, op) ==
  /\ dino' = d
  /\ UNCHANGED <<gameState, obstacles, score, speed, nextObstacleTimeRef>>
  /\ Rendered(Render002(gameState, d, obstacles, speed, score, highScore,
                        rafQueue, gameLoopRef, lastTimeRef, localStorage))
  /\ ev' = Ev(e.event, e.code, op)
  /\ inputs' = inputs + 1

handleKeyDown002(e) ==
  IF gameState = "running"
    THEN IF e.code \in {"Space", "ArrowUp"}
           THEN IF IsOnGround(dino)
                  THEN SetDino002([dino EXCEPT !.vy = 0 - JUMP_FORCE], e, "jump")
                  ELSE NoUpdate /\ ev' = Ev(e.event, e.code, "nojump")
         ELSE IF e.code = "ArrowDown"
           THEN SetDino002([dino EXCEPT !.status = "ducking"], e, "duck")
           ELSE Ignored
    ELSE IF e.code \in {"Space", "ArrowUp"}
           THEN \E r \in random(OBSTACLE_INTERVAL_MIN, OBSTACLE_INTERVAL_MAX) :
                  resetGame(e, r)
           ELSE Ignored

handleKeyUp002(e) ==
  IF gameState = "running" /\ e.code = "ArrowDown"
    THEN SetDino002([dino EXCEPT !.status = "running"], e, "unduck")
    ELSE Ignored

KeyDown002 == /\ Input
              /\ \E code \in Codes :
                   handleKeyDown002([event |-> "keydown", code |-> code])
              /\ UNCHANGED <<isMuted, probe>>

KeyUp002 == /\ Input
            /\ \E code \in Codes :
                 handleKeyUp002([event |-> "keyup", code |-> code])
            /\ UNCHANGED <<isMuted, probe>>

Next002 == Frame002 \/ KeyDown002 \/ KeyUp002

Spec002 == Init /\ [][Next002]_vars

(* ----------------- the overlap condition on its own -------------------- *)
\* boxes in px: the player's and the obstacles' sizes at positions that
\* overlap, touch and lie apart
BoxXs == {-25, 6, 25, 50, 60, 94, 95}
BoxYs == {133, 180, 183, 230}
BoxSizes == {<<44, 47>>, <<59, 30>>, <<25, 50>>}
Boxes ==
  {[x |-> x, y |-> y, width |-> sz[1], height |-> sz[2]] :
     x \in BoxXs, y \in BoxYs, sz \in BoxSizes}

GameIdle ==
  UNCHANGED <<gameState, dino, obstacles, score, highScore, speed, isMuted,
              gameLoopRef, lastTimeRef, nextObstacleTimeRef, localStorage,
              rafQueue, frames, inputs, ev>>

OverlapInit ==
  /\ GameInit
  /\ ~localStorage.has
  /\ \E a \in Boxes, b \in Boxes :
       probe = [kind |-> "overlap", a |-> a, b |-> b, done |-> FALSE,
                hit |-> FALSE, back |-> FALSE]

\* the condition of the collision loop, applied to (a, b) and to (b, a)
OverlapStep ==
  /\ probe.kind = "overlap" /\ ~probe.done
  /\ probe' = [probe EXCEPT !.done = TRUE, !.hit = Overlap(probe.a, probe.b),
                            !.back = Overlap(probe.b, probe.a)]
  /\ GameIdle

OverlapSpec == OverlapInit /\ [][OverlapStep]_vars

(* ----------------- the kinematics on their own ------------------------- *)
\* ticks applied in a row
MaxKinTicks == 10
\* starting y in px, vy in px/s, deltaTime in 1/SEC s (0, 1/60 s, 250 ms)
KinYs == {100, 133, 183, 200, 203, 230}
KinVys == {0 - JUMP_FORCE, -200, 0, 250}
KinDeltas == {0, 10, 150}

KinInit ==
  /\ GameInit
  /\ ~localStorage.has
  /\ \E y \in KinYs, vy \in KinVys, st \in {"running", "ducking"},
        dt \in KinDeltas :
       LET d == [y |-> y * YU, vy |-> vy, status |-> st]
       IN  probe = [kind |-> "kin", start |-> d, d |-> d, dt |-> dt, n |-> 0]

\* the player part of a tick that finds no collision:
\* setDino(prev => ({ ...prev, y: newDinoY, vy: newDinoVy }))
KinStep ==
  /\ probe.kind = "kin" /\ probe.n < MaxKinTicks
  /\ LET k == Kinematics(probe.d, probe.dt)
     IN  probe' = [probe EXCEPT !.d = [@ EXCEPT !.y = k.y, !.vy = k.vy],
                               !.n = @ + 1]
  /\ GameIdle

KinSpec == KinInit /\ [][KinStep]_vars

(* ----------------- the obstacle field on its own ----------------------- *)
\* ticks applied in a row
MaxFieldTicks == 8
\* deltaTime of a tick, in 1/SEC s: 0.5 s, 1 s and 2.4 s
FieldDeltas == {300, 600, 1440}

FieldInit ==
  /\ GameInit
  /\ ~localStorage.has
  /\ \E r \in random(OBSTACLE_INTERVAL_MIN, OBSTACLE_INTERVAL_MAX) :
       probe = [kind |-> "field", obstacles |-> <<>>,
                speed |-> INITIAL_SPEED * SU, cd |-> r * CU, n |-> 0, dt |-> 0,
                spawned |-> FALSE, removed |-> 0]

\* the obstacle part of a tick that finds no collision, from the state a
\* reset leaves: newObstacles, the countdown, setObstacles and setSpeed
FieldStep ==
  /\ probe.kind = "field" /\ probe.n < MaxFieldTicks
  /\ \E deltaTime \in FieldDeltas,
        r \in random(OBSTACLE_INTERVAL_MIN, OBSTACLE_INTERVAL_MAX),
        type \in DOMAIN OBSTACLE_CONFIGS :
       LET cd == Countdown(probe.cd, deltaTime)
       IN  probe' = [probe EXCEPT
                       !.obstacles = ScrollAndSpawn(@, probe.speed, deltaTime,
                                                    cd, type),
                       !.cd = NextCountdown(cd, r, probe.speed),
                       !.speed = @ + SpeedGain(deltaTime),
                       !.n = @ + 1,
                       !.dt = deltaTime,
                       !.spawned = (cd <= 0),
                       !.removed = Len(probe.obstacles)
                                     - Len(MoveObstacles(probe.obstacles,
                                                         probe.speed, deltaTime))]
  /\ GameIdle

FieldSpec == FieldInit /\ [][FieldStep]_vars

(* ----------------- a jump and the ticks after it ----------------------- *)
\* ticks applied after the jump
MaxJumpTicks == 45
\* deltaTime of the ticks, in 1/SEC s: 1/60 s, 1/30 s, 0.1 s, 0.25 s, 0.5 s
JumpDeltas == {10, 20, 60, 150, 300}

JumpInit ==
  /\ GameInit
  /\ ~localStorage.has
  /\ \E st \in {"running", "ducking"}, dt \in JumpDeltas :
       probe = [kind |-> "jump",
                d |-> [y |-> groundPosition(st), vy |-> 0, status |-> st],
                dt |-> dt, n |-> 0, jumped |-> FALSE]

\* jump(): setDino(prevDino => ...) on the player standing on the ground
JumpStart ==
  /\ probe.kind = "jump" /\ ~probe.jumped
  /\ probe' = [probe EXCEPT !.d = jumpUpdater(@), !.jumped = TRUE]
  /\ GameIdle

\* the player part of a tick that finds no collision
JumpTick ==
  /\ probe.kind = "jump" /\ probe.jumped /\ probe.n < MaxJumpTicks
  /\ LET k == Kinematics(probe.d, probe.dt)
     IN  probe' = [probe EXCEPT !.d = [@ EXCEPT !.y = k.y, !.vy = k.vy],
                               !.n = @ + 1]
  /\ GameIdle

JumpNext == JumpStart \/ JumpTick

\* while the mode is running every frame requests the next one: the ticks
\* keep coming
JumpSpec == JumpInit /\ [][JumpNext]_vars /\ WF_vars(JumpTick)


(* ------------------------------ lemmas --------------------------------- *)
\* lastTimeRef holds a time only between a first frame and the frame after
\* it, with the player, obstacles and speed that first frame saw; in every
\* state the pending gameLoop closes over the current state
LastTimeIsLastFrame ==
  /\ (rafQueue # {} /\ lastTimeRef # 0) => ev.op \in {"prime", "nojump"}
  /\ \A cb \in rafQueue :
       cb.dino = dino /\ cb.obstacles = obstacles /\ cb.speed = speed

(* ------------------------------ claims --------------------------------- *)
Confirm(e) ==
  \/ e.event = "keydown" /\ e.code \in {"Space", "ArrowUp"}
  \/ e.event = "touchstart"

Duck(e) == e.event \in {"keydown", "keyup"} /\ e.code = "ArrowDown"

\* C1: the mode starts as waiting and changes only waiting -> running and
\* gameOver -> running, both on a confirm input (Space, ArrowUp, tap), and
\* running -> gameOver, in a tick's collision check; waiting is never
\* entered again; a confirm or duck input while running leaves the mode.
C1_ModeCycle ==
  /\ gameState = "waiting"
  /\ [][/\ gameState' # gameState =>
             \/ /\ gameState \in {"waiting", "gameOver"}
                /\ gameState' = "running"
                /\ Confirm(ev')
             \/ /\ gameState = "running"
                /\ gameState' = "gameOver"
                /\ ev'.event = "frame" /\ ev'.op = "collide"
        /\ gameState # "waiting" => gameState' # "waiting"
        /\ (gameState = "running" /\ (Confirm(ev') \/ Duck(ev'))) =>
             gameState' = "running"]_vars

\* a second episode was started from gameOver with the Space key
C1_Witness ==
  /\ gameState = "running"
  /\ ev.op = "reset" /\ ev.code = "Space"
  /\ frames >= 4

\* C2: a confirm input in waiting or gameOver gives mode running, the player
\* at y = GROUND_Y - 47 with vy = 0 and status running, no obstacles,
\* score 0, speed INITIAL_SPEED and a countdown in [700, 1800] ms.
C2_ResetState ==
  [][(gameState \in {"waiting", "gameOver"} /\ Confirm(ev')) =>
       /\ gameState' = "running"
       /\ dino' = [y |-> (GROUND_Y - 47) * YU, vy |-> 0, status |-> "running"]
       /\ dino'.y = 183 * YU
       /\ obstacles' = <<>>
       /\ score' = 0
       /\ speed' = INITIAL_SPEED * SU
       /\ nextObstacleTimeRef' >= OBSTACLE_INTERVAL_MIN * CU
       /\ nextObstacleTimeRef' <= OBSTACLE_INTERVAL_MAX * CU]_vars

\* a tap in gameOver, after an episode that set a high score, started a
\* new episode
C2_Witness ==
  /\ ev.op = "reset" /\ ev.event = "touchstart"
  /\ highScore > 0
  /\ frames >= 4

\* the obstacles of a tick after deltaTime: those that moved and stayed, and
\* the one of either type that is added when the countdown ran out
AfterMove(dt) ==
  LET shifted == [i \in 1..Len(obstacles) |->
                    [obstacles[i] EXCEPT !.x = @ - speed * dt]]
  IN  {shifted[i] : i \in {j \in 1..Len(obstacles) :
                             shifted[j].x > (0 - shifted[j].width) * XU}}
      \cup (IF nextObstacleTimeRef * SEC - dt * MS_PER_SEC * CU <= 0
              THEN {[x |-> GAME_WIDTH * XU, width |-> w, height |-> 50] :
                      w \in {25, 50}}
              ELSE {})

\* the player's y after deltaTime
YAfter(dt) ==
  LET vy == dino.vy + (GRAVITY * dt) \div SEC
      y == dino.y + vy * dt
      g == IF dino.status = "ducking" THEN 200 * YU ELSE 183 * YU
  IN  IF y >= g THEN g ELSE y

\* the player's box at y overlaps obstacle o's box
Hits(y, o) ==
  LET w == IF dino.status = "ducking" THEN 59 ELSE 44
      h == IF dino.status = "ducking" THEN 30 ELSE 47
  IN  /\ DINO_X * XU < o.x + o.width * XU
      /\ (DINO_X + w) * XU > o.x
      /\ y < GROUND_Y * YU
      /\ y + h * YU > (GROUND_Y - o.height) * YU

C3_WitnessClear ==
  /\ gameState = "running" /\ ev.op = "tick"
  /\ \E i \in 1..Len(obstacles) : obstacles[i].x < GAME_WIDTH * XU


\* the open intervals (p, p + m) and (q, q + n) have a point in common
Meet(p, m, q, n) ==
  (IF p > q THEN p ELSE q) < (IF p + m < q + n THEN p + m ELSE q + n)

\* C4: the collision condition is the strict overlap of two boxes: it holds
\* exactly when the boxes' open x and y extents both meet, gives the same
\* answer for (a, b) and (b, a), is false for boxes that only touch, is true
\* for the player {50,180,44,47} and the obstacle {60,180,25,50}, and false
\* for that obstacle at x = 95.
C4_StrictOverlap ==
  (probe.kind = "overlap" /\ probe.done) =>
    LET a == probe.a
        b == probe.b
    IN  /\ probe.hit = probe.back
        /\ probe.hit = (/\ Meet(a.x, a.width, b.x, b.width)
                        /\ Meet(a.y, a.height, b.y, b.height))
        /\ (a.x + a.width = b.x \/ a.y + a.height = b.y) => ~probe.hit
        /\ (/\ a = [x |-> 50, y |-> 180, width |-> 44, height |-> 47]
            /\ b = [x |-> 60, y |-> 180, width |-> 25, height |-> 50])
           => probe.hit
        /\ (/\ a = [x |-> 50, y |-> 180, width |-> 44, height |-> 47]
            /\ b = [x |-> 95, y |-> 180, width |-> 25, height |-> 50])
           => ~probe.hit

\* the condition was applied to the player's box and an obstacle whose left
\* edge is the player's right edge, with the y extents meeting
C4_Witness ==
  /\ probe.kind = "overlap" /\ probe.done
  /\ probe.a = [x |-> 50, y |-> 180, width |-> 44, height |-> 47]
  /\ probe.b = [x |-> 94, y |-> 180, width |-> 25, height |-> 50]
  /\ ~probe.hit


\* C5: in every reachable state the player's y is at most the ground level
\* of its current status: y <= 183 px when running, y <= 200 px when ducking.
C5_NeverBelowGround ==
  dino.y <= (IF dino.status = "ducking" THEN 200 ELSE 183) * YU

\* C6: a tick integrates vy' = vy + GRAVITY*dt, y' = y + vy'*dt and, when
\* y' >= groundY(status), commits y' = groundY(status), vy' = 0; the y it
\* commits is never above groundY(status), also from a start below ground:
\* from y = 203, vy = 0, running, dt = 1/60 s every tick commits y = 183.
C6_GroundClamp ==
  [][(probe.kind = "kin" /\ probe'.n = probe.n + 1) =>
       LET dt == probe.dt
           vy1 == probe.d.vy + (GRAVITY * dt) \div SEC
           y1 == probe.d.y + vy1 * dt
           g == (GROUND_Y - (IF probe.d.status = "ducking" THEN 30 ELSE 47)) * YU
       IN  /\ probe'.d.status = probe.d.status
           /\ y1 >= g => probe'.d.y = g /\ probe'.d.vy = 0
           /\ y1 < g => probe'.d.y = y1 /\ probe'.d.vy = vy1
           /\ probe'.d.y <= g
           /\ (/\ probe.start = [y |-> 203 * YU, vy |-> 0, status |-> "running"]
               /\ dt * 60 = SEC)
              => probe'.d.y = 183 * YU]_vars

\* ten ticks of 1/60 s were applied from y = 203, vy = 0, running
C6_Witness ==
  /\ probe.kind = "kin"
  /\ probe.start = [y |-> 203 * YU, vy |-> 0, status |-> "running"]
  /\ probe.dt * 60 = SEC
  /\ probe.n = 10
  /\ probe.d = [y |-> 183 * YU, vy |-> 0, status |-> "running"]


\* C7: a jump input sets vy = -JUMP_FORCE only when the player is exactly
\* at ground level for its status, y = GROUND_Y - height(status), so that no
\* second impulse is given between leaving the ground and landing.
C7_JumpOnlyAtGround ==
  ev.op = "jump" =>
    /\ dino.vy = 0 - JUMP_FORCE
    /\ dino.y = (GROUND_Y - (IF dino.status = "ducking" THEN 30 ELSE 47)) * YU

\* C8: score and speed never decrease within an episode: a committed tick
\* adds speed*dt/10 to score and SPEED_INCREASE_RATE*dt to speed, nothing
\* else changes them, speed is at least INITIAL_SPEED, and a reset sets them
\* to (0, INITIAL_SPEED).  (speed*dt in 1/XU px is speed*dt/10 in 1/SCU
\* point.)
C8_ScoreSpeedMonotone ==
  [][/\ ev'.op = "reset" => score' = 0 /\ speed' = INITIAL_SPEED * SU
     /\ ev'.op = "tick" =>
          /\ score' = score + speed * ev'.dt
          /\ (speed' - speed) * SEC = SPEED_INCREASE_RATE * ev'.dt * SU
     /\ ev'.op \notin {"tick", "reset"} => score' = score /\ speed' = speed
     /\ ev'.op # "reset" => score' >= score /\ speed' >= speed
     /\ speed' >= INITIAL_SPEED * SU]_vars

\* a tick was committed in an episode that followed one ending in a record
C8_Witness ==
  /\ gameState = "running" /\ ev.op = "tick"
  /\ highScore > 40
  /\ score > 0 /\ speed > INITIAL_SPEED * SU

\* C9: entering gameOver makes highScore the larger of highScore and
\* floor(score); a new record is written to localStorage and reads back as
\* highScore; nothing else changes highScore or the stored entry, and
\* highScore never decreases.
C9_HighScore ==
  [][/\ ev'.op = "collide" =>
          LET fl == score \div SCU
          IN  /\ highScore' = IF fl > highScore THEN fl ELSE highScore
              /\ fl > highScore =>
                   /\ localStorage'.has
                   /\ ~ParseInt(localStorage'.value).nan
                   /\ ParseInt(localStorage'.value).value = highScore'
              /\ fl <= highScore => localStorage' = localStorage
     /\ ev'.op # "collide" =>
          highScore' = highScore /\ localStorage' = localStorage
     /\ highScore' >= highScore]_vars

\* the first episode ended with a record above the stored 40
C9_Witness ==
  /\ gameState = "gameOver" /\ ev.op = "collide"
  /\ frames <= 4
  /\ highScore > 40 /\ highScore = score \div SCU
  /\ localStorage = [has |-> TRUE, value |-> <<"7", "2">>]

\* C10: a committed tick moves every obstacle left by speed*dt, then drops
\* exactly those with x <= -width, keeping the order of the rest, and adds
\* at most one at x = GAME_WIDTH; no other step but a reset changes the
\* obstacles; so after a tick no obstacle has x <= -width and none is right
\* of GAME_WIDTH.
C10_ScrollAndDespawn ==
  [][/\ ev'.op = "tick" =>
          LET shift(i) == obstacles[i].x - speed * ev'.dt
              kept == {i \in 1..Len(obstacles) :
                         ~(shift(i) <= (0 - obstacles[i].width) * XU)}
              n == Cardinality(kept)
          IN  /\ Len(obstacles') \in {n, n + 1}
              /\ \A i \in kept :
                   obstacles'[Cardinality({j \in kept : j <= i})] =
                     [obstacles[i] EXCEPT !.x = shift(i)]
              /\ Len(obstacles') = n + 1 =>
                   obstacles'[n + 1].x = GAME_WIDTH * XU
              /\ ev'.removed = Len(obstacles) - n
     /\ ev'.op \notin {"tick", "reset"} => obstacles' = obstacles
     /\ \A i \in 1..Len(obstacles') :
          /\ obstacles'[i].x > (0 - obstacles'[i].width) * XU
          /\ obstacles'[i].x <= GAME_WIDTH * XU]_vars

\* a tick dropped an obstacle that had moved off the field
C10_Witness ==
  /\ ev.op = "tick" /\ ev.removed = 1
  /\ gameState = "running"

\* C11: the obstacle sequence is in spawn order and sorted by x along that
\* order: a tick keeps the obstacles that stay in the order they had, puts
\* the one it spawns last, and after it no obstacle has an x greater than
\* the x of an obstacle behind it in the sequence.
C11_SpawnOrder ==
  [][(probe.kind = "field" /\ probe'.n = probe.n + 1) =>
       LET old == probe.obstacles
           new == probe'.obstacles
           m == IF probe'.spawned THEN Len(new) - 1 ELSE Len(new)
           from(i) == {k \in 1..Len(old) :
                         new[i] = [old[k] EXCEPT !.x = @ - probe.speed * probe'.dt]}
       IN  /\ m >= 0
           /\ \A i \in 1..m : from(i) # {}
           /\ \A i \in 1..m : \A j \in (i + 1)..m :
                 \A k \in from(i) : \A l \in from(j) : k < l
           /\ probe'.spawned => new[Len(new)].x = GAME_WIDTH * XU
           /\ \A i \in 1..Len(new) : \A j \in (i + 1)..Len(new) :
                 new[i].x <= new[j].x]_vars

\* a tick dropped the oldest obstacle, kept two and spawned one behind them
C11_Witness ==
  /\ probe.kind = "field" /\ probe.spawned /\ probe.removed = 1
  /\ Len(probe.obstacles) = 3

\* C12: a tick adds at most one obstacle, however large dt is: the countdown
\* decreases by dt*1000 ms; exactly when the result is <= 0 one obstacle of
\* a catalog type is added last at x = GAME_WIDTH and the countdown becomes
\* a value of [700, 1800] ms divided by speed / INITIAL_SPEED (rounded down
\* to 1/CU ms); otherwise none is added; after every tick the countdown is
\* > 0 and <= OBSTACLE_INTERVAL_MAX.
C12_OneSpawnPerTick ==
  [][ev'.op \in {"tick", "collide"} =>
       LET cd == nextObstacleTimeRef - (ev'.dt * MS_PER_SEC * CU) \div SEC
           n == Len(obstacles')
       IN  /\ ev'.spawned = (cd <= 0)
           /\ cd > 0 => nextObstacleTimeRef' = cd
           /\ cd <= 0 =>
                /\ nextObstacleTimeRef' * speed
                     <= OBSTACLE_INTERVAL_MAX * CU * INITIAL_SPEED * SU
                /\ (nextObstacleTimeRef' + 1) * speed
                     > OBSTACLE_INTERVAL_MIN * CU * INITIAL_SPEED * SU
           /\ ev'.op = "tick" =>
                /\ n = Len(obstacles) - ev'.removed + (IF cd <= 0 THEN 1 ELSE 0)
                /\ n <= Len(obstacles) + 1
                /\ cd <= 0 =>
                     /\ obstacles'[n].x = GAME_WIDTH * XU
                     /\ obstacles'[n].type \in {"CACTUS_SMALL", "CACTUS_LARGE"}
                     /\ obstacles'[n].width \in {25, 50}
                     /\ obstacles'[n].height = 50
           /\ nextObstacleTimeRef' > 0
           /\ nextObstacleTimeRef' <= OBSTACLE_INTERVAL_MAX * CU]_vars

\* a tick of 2.4 s took the countdown from 700 ms to -1700 ms and added one
\* obstacle
C12_Witness ==
  /\ ev.op = "tick" /\ ev.spawned /\ ev.dt * 5 = 12 * SEC
  /\ Len(obstacles) = 1
  /\ nextObstacleTimeRef >= OBSTACLE_INTERVAL_MIN * CU

\* C13: while the mode is waiting or gameOver no frame callback is pending
\* and none runs, and nothing but a reset changes the player, the obstacle
\* sequence, score or speed.
C13_StoppedIsQuiet ==
  /\ [](gameState # "running" => rafQueue = {})
  /\ [][gameState # "running" =>
          /\ frames' = frames
          /\ ev'.op # "reset" => UNCHANGED <<dino, obstacles, score, speed>>]_vars

\* in gameOver, after a tick that spawned an obstacle and found a collision,
\* the mute button re-ran the game loop effect
C13_Witness ==
  /\ gameState = "gameOver" /\ ev.op = "mute"
  /\ rafQueue = {} /\ gameLoopRef # Null
  /\ score > 0 /\ obstacles # <<>>

\* C14: audio never affects the simulation: runs that get the same frames,
\* game inputs and random draws and differ only in mute toggles agree on
\* mode, player, obstacles, score, speed and countdown after every frame.
\* A frame is a function of what it reads (its closure, lastTimeRef and the
\* countdown), so the runs agree exactly when a mute toggle leaves the
\* simulation's state and what the next frame reads as they are.
C14_AudioIsolated ==
  [][ev'.op = "mute" =>
       /\ UNCHANGED <<gameState, dino, obstacles, score, speed,
                      nextObstacleTimeRef>>
       /\ lastTimeRef' = lastTimeRef
       /\ \A cb \in rafQueue' : \E old \in rafQueue :
            /\ cb.dino = old.dino
            /\ cb.obstacles = old.obstacles
            /\ cb.speed = old.speed]_vars

\* C15: while running the simulation step runs once per frame: a frame
\* delivered while running right after another frame (so not the first
\* frame after entering running, and with no input in between) performs a
\* tick, with the time since that frame as dt.
C15_TickEveryFrame ==
  [][(gameState = "running" /\ ev.event = "frame" /\ frames' = frames + 1) =>
       /\ ev'.op \in {"tick", "collide"}
       /\ ev'.dt > 0]_vars

\* the step is a keydown (down) or keyup (~down) of the duck key: the key
\* changed its position, or its handler acted
DuckInput(down) ==
  \/ ("ArrowDown" \in probe'.held) = down /\ ("ArrowDown" \in probe.held) # down
  \/ /\ inputs' = inputs + 1
     /\ ev'.op = (IF down THEN "duck" ELSE "unduck")

\* C16: a duck-start or duck-end input while running changes only the
\* player's status (to ducking, to running): y, vy, the obstacles, score,
\* speed, the countdown and the mode stay, also when the player is
\* airborne; while waiting or in gameOver it changes nothing.
C16_DuckOnlyStatus ==
  [][\A down \in BOOLEAN :
       (probe.kind = "keys" /\ DuckInput(down)) =>
         /\ UNCHANGED <<gameState, obstacles, score, speed, nextObstacleTimeRef>>
         /\ dino'.y = dino.y /\ dino'.vy = dino.vy
         /\ gameState = "running" =>
              dino'.status = (IF down THEN "ducking" ELSE "running")
         /\ gameState # "running" =>
              UNCHANGED <<dino, highScore, isMuted, gameLoopRef, lastTimeRef,
                          localStorage, rafQueue, frames, inputs, ev>>]_vars

\* the duck key went down while the player was rising from a jump
C16_Witness ==
  /\ probe.kind = "keys" /\ "ArrowDown" \in probe.held
  /\ ev.op = "duck" /\ dino.status = "ducking"
  /\ dino.vy < 0 /\ dino.y < (GROUND_Y - 47) * YU

\* C18: input is edge-triggered: a keydown event of a confirm key that is
\* already down (a repeat, no keyup since its keydown) causes no action,
\* neither a reset nor a jump.
C18_EdgeTriggered ==
  [][(/\ probe.kind = "keys"
      /\ ev'.event = "keydown" /\ inputs' = inputs + 1
      /\ ev'.code \in {"Space", "ArrowUp"}
      /\ ev'.code \in probe.held) =>
       ev'.op \notin {"reset", "jump"}]_vars

\* the player has jumped from the ground
Jumped == probe.kind = "jump" /\ probe.jumped

JumpGround == (GROUND_Y - (IF probe.d.status = "ducking" THEN 30 ELSE 47)) * YU

\* C17: after a jump from the ground (vy = -650), under repeated ticks with
\* dt > 0, the player lands: a tick sets y = groundY(status) and vy = 0
\* together; after every tick before it y < groundY(status); y never
\* exceeds groundY(status).
C17_JumpLands ==
  /\ [][(~probe.jumped /\ probe'.jumped) =>
          /\ probe'.d.vy = 0 - JUMP_FORCE
          /\ probe'.d.y = JumpGround]_vars
  /\ Jumped ~> (probe.n > 0 /\ probe.d.y = JumpGround /\ probe.d.vy = 0)
  /\ [](Jumped => probe.d.y <= JumpGround)
  /\ [][(Jumped /\ probe'.n = probe.n + 1) =>
          \/ probe'.d.y < JumpGround /\ probe'.d.vy # 0
          \/ probe'.d.y = JumpGround /\ probe'.d.vy = 0]_vars
  /\ [][(Jumped /\ probe.n > 0 /\ probe.d.y = JumpGround) =>
          probe'.d.y = JumpGround /\ probe'.d.vy = 0]_vars

\* the player landed on the 43rd tick of 1/60 s after the jump, having been
\* in the air after the 42nd
C17_Witness ==
  /\ Jumped /\ probe.dt * 60 = SEC /\ probe.d.status = "running"
  /\ probe.n = 43
  /\ probe.d.y = 183 * YU /\ probe.d.vy = 0

\* C19: at every moment at most one frame callback is requested and not yet
\* run or cancelled, and it is the one gameLoopRef names.
C19_OnePendingFrame ==
  /\ Cardinality(rafQueue) <= 1
  /\ \A cb \in rafQueue : cb.id = gameLoopRef

\* one frame is pending after a tick, a jump and a mute toggle while running
C19_Witness ==
  /\ gameState = "running" /\ ev.op = "mute"
  /\ Cardinality(rafQueue) = 1
  /\ score > 0 /\ dino.vy < 0

\* C20: while running no obstacle gets past the player undetected: when the
\* player stands on the ground and an obstacle is entirely to the right of
\* the player's box before a tick and entirely to the left of it after the
\* tick's move, the tick ends in gameOver, for every dt.
C20_NoTunnelling ==
  [][(gameState = "running" /\ ev'.op \in {"tick", "collide"}) =>
       LET w == IF dino.status = "ducking" THEN 59 ELSE 44
           h == IF dino.status = "ducking" THEN 30 ELSE 47
           grounded == dino.y = (GROUND_Y - h) * YU /\ dino.vy = 0
       IN  \A i \in 1..Len(obstacles) :
             (/\ grounded
              /\ obstacles[i].x >= (DINO_X + w) * XU
              /\ obstacles[i].x - speed * ev'.dt + obstacles[i].width * XU
                   <= DINO_X * XU)
             => gameState' = "gameOver"]_vars

\* C21: the tick that detects a collision commits nothing but the mode
\* change: player, obstacles, score and speed in gameOver are those before
\* the tick, no frame callback is requested, and the high score is computed
\* from the score before the tick.
C21_CollisionCommitsNothing ==
  [][ev'.op = "collide" =>
       /\ gameState' = "gameOver"
       /\ UNCHANGED <<dino, obstacles, score, speed>>
       /\ rafQueue' = {}
       /\ highScore' = (IF score \div SCU > highScore THEN score \div SCU
                        ELSE highScore)]_vars

\* C22: the gameOver sound cue is emitted exactly once per game-over:
\* between entering gameOver and the next reset, playSound('gameOver') has
\* been called once, whether or not the episode set a new high score and
\* whether or not mute was toggled meanwhile.
C22_OneGameOverCue ==
  (probe.kind = "sound" /\ gameState = "gameOver") => probe.calls = 1

====
